---- MODULE Spec2Model ----
(***************************************************************************)
(* Model of the Bubble MCP server: the CallToolRequestSchema handler       *)
(* (mcp-server.js) and the BubbleService proxy (bubbleService.ts).         *)
(*                                                                         *)
(* A handler runs synchronously up to its one `await` on the transport,    *)
(* so a tool invocation is two steps: Invoke (guard, switch, audit line,   *)
(* proxy call up to the HTTP request) and Resolve / Reject (the transport  *)
(* settles; the rest of the proxy method and of the handler run).          *)
(* Strings that the code builds by interpolation are sequences of string   *)
(* tokens, so that "the text contains the tool name" can be stated.        *)
(***************************************************************************)
EXTENDS Integers, Sequences, FiniteSets, Bags, TLC

VARIABLES
    env,        \* process.env.MCP_MODE
    schema,     \* BubbleService.schema
    inflight,   \* the handler activations suspended on the transport (a bag:
                \* each is its invocation and what it did so far)
    returned,   \* the invocation that returned in the step just taken, with its
                \* envelope (NoCall when the step returned nothing)
    firstOk,    \* history: the body of the first successful schema fetch
    listed      \* the tools/list result returned in the step just taken
                \* (NotListed when the step returned none)

vars == <<env, schema, inflight, returned, firstOk, listed>>

----------------------------------------------------------------------------
(* Bounds *)

\* handler activations that may be suspended on the transport at once
MaxInflight == 1
\* the same, for the specification of overlapping schema requests
MaxOverlap == 2

----------------------------------------------------------------------------
(* JavaScript values *)

Undefined == "<undefined>"
Null == "<null>"
EmptyString == ""

\* `${v}` of a string-or-undefined value
Str(v) == IF v = Undefined THEN "undefined" ELSE v

\* !v for the values a response body or the cache slot can hold
Falsy(v) == v \in {Undefined, Null, EmptyString}

Digits == <<"0", "1", "2", "3", "4", "5", "6", "7", "8", "9">>

RECURSIVE NumToString(_)
\* Number.prototype.toString for a natural number
NumToString(n) ==
    IF n < 10 THEN Digits[n + 1]
    ELSE NumToString(n \div 10) \o Digits[(n % 10) + 1]

RECURSIVE Join(_, _)
\* Array.prototype.join over string tokens
Join(parts, sep) ==
    IF Len(parts) = 0 THEN <<>>
    ELSE IF Len(parts) = 1 THEN <<parts[1]>>
    ELSE <<parts[1], sep>> \o Join(Tail(parts), sep)

----------------------------------------------------------------------------
(* Input domains *)

SchemaA == "schemaA"
SchemaB == "schemaB"

\* response.data of a successful transport request
Bodies == {Null, SchemaA, SchemaB}

ObjRecord == "obj:record"
ObjEmpty == "obj:empty"

\* JSON.stringify(v): compact rendering of the objects used as `data`
JSONCompact(v) ==
    CASE v = ObjRecord -> "{\"name\":\"x\"}"
      [] v = ObjEmpty -> "{}"
      [] v = Null -> "null"
      [] OTHER -> "\"" \o v \o "\""

\* JSON.stringify(v, null, 2): pretty rendering of a response body
JSONPretty(v) ==
    CASE v = Null -> "null"
      [] v = EmptyString -> "\"\""
      [] v = SchemaA -> "{\n  \"get\": [\n    \"user\"\n  ]\n}"
      [] v = SchemaB -> "{\n  \"get\": [\n    \"user\",\n    \"order\"\n  ]\n}"
      [] OTHER -> "\"" \o v \o "\""

\* what the transport may reject with
AxiosHttpError ==
    [instanceOfError |-> TRUE, nullish |-> FALSE, hasMessage |-> TRUE,
     message |-> <<"Request failed with status code 404">>,
     upstream |-> "Not found"]
AxiosNetworkError ==
    [instanceOfError |-> TRUE, nullish |-> FALSE, hasMessage |-> TRUE,
     message |-> <<"Network Error">>, upstream |-> Undefined]
ThrownString ==
    [instanceOfError |-> FALSE, nullish |-> FALSE, hasMessage |-> FALSE,
     message |-> <<>>, upstream |-> Undefined]
ThrownNull ==
    [instanceOfError |-> FALSE, nullish |-> TRUE, hasMessage |-> FALSE,
     message |-> <<>>, upstream |-> Undefined]

Rejections == {AxiosHttpError, AxiosNetworkError, ThrownString, ThrownNull}

\* values of process.env.MCP_MODE
EnvValues == {Undefined, "read-write", "READ-WRITE", "read-only"}

\* String.prototype.toLowerCase on the settings above
ToLowerCase(s) ==
    CASE s = "READ-WRITE" -> "read-write"
      [] s = "Read-Write" -> "read-write"
      [] OTHER -> s

Catalog ==
    <<"bubble_get_schema", "bubble_list", "bubble_get", "bubble_create",
      "bubble_update", "bubble_delete", "bubble_workflow">>

CatalogNames == {Catalog[k] : k \in DOMAIN Catalog}

ToolNames == CatalogNames \cup {"bubble_frobnicate"}

\* `arguments` absent (args || {} in the guard)
EmptyArgs == [k \in {} |-> Undefined]

\* the `arguments` objects the invocations of each tool are drawn from
ArgsFor(name) ==
    CASE name = "bubble_get_schema" ->
            { [dataType |-> "user"] }
      [] name = "bubble_list" ->
            { EmptyArgs,
              [dataType |-> "user", limit |-> 10, cursor |-> 5],
              [dataType |-> "user", limit |-> 10],
              [dataType |-> "user", limit |-> 0],
              [dataType |-> "user", cursor |-> 0] }
      [] name = "bubble_get" ->
            { [dataType |-> "order", id |-> "42"],
              [id |-> "42"] }
      [] name = "bubble_create" ->
            { [dataType |-> "user", data |-> ObjRecord, extra |-> "x"],
              [dataType |-> "user"] }
      [] name = "bubble_update" ->
            { [dataType |-> "order", id |-> "42", data |-> ObjRecord],
              [dataType |-> "order", id |-> "42"] }
      [] name = "bubble_delete" ->
            { [dataType |-> "order", id |-> "42"],
              [id |-> "42"] }
      [] name = "bubble_workflow" ->
            { [workflowName |-> "notify", data |-> ObjRecord],
              [workflowName |-> "notify", data |-> Null],
              [workflowName |-> "notify"],
              EmptyArgs }
      [] OTHER ->
            { [dataType |-> "user"] }

\* property order of Object.entries(args)
FieldOrder ==
    <<"dataType", "id", "data", "limit", "cursor", "workflowName", "extra">>

Has(args, k) == k \in DOMAIN args

\* args.k for the string-valued fields
Field(args, k) == IF Has(args, k) THEN args[k] ELSE Undefined

----------------------------------------------------------------------------
(* What an invocation does, in order: audit lines, proxy method calls,     *)
(* transport requests and the proxies' error logs.                         *)

AuditEv(line) == [ev |-> "audit", line |-> line]
CallEv(method) == [ev |-> "call", method |-> method]
HttpEv(verb, url, body) == [ev |-> "http", verb |-> verb, url |-> url, body |-> body]
ErrLogEv(line) == [ev |-> "errlog", line |-> line]

NoBody == "<no body>"

----------------------------------------------------------------------------
(* mcp-server.js: helpers *)

\* mutant: the setting is compared as written, without lower-casing
isReadOnlyMode_CaseSensitive(envValue) == envValue # "read-write"

isReadOnlyMode(envValue) ==
    LET mode == IF envValue = Undefined THEN Undefined ELSE ToLowerCase(envValue)
    IN  mode # "read-write"

\* `${typeof v === 'object' ? JSON.stringify(v) : v}` for the value of field k
RenderParam(k, v) ==
    IF k \in {"limit", "cursor"} THEN NumToString(v)
    ELSE IF k = "data" THEN JSONCompact(v)
    ELSE v

\* Object.entries(params).filter(v !== undefined).map(k=v).join(' '), where
\* params holds the fields `keys` of args (an absent field is undefined)
SanitizedParams(args, keys) ==
    LET present == SelectSeq(keys, LAMBDA k : Has(args, k))
        shown == [n \in DOMAIN present |->
                     present[n] \o "=" \o RenderParam(present[n], args[present[n]])]
    IN  Join(shown, " ")

logAction(tool, args, keys, blocked) ==
    IF blocked
    THEN AuditEv(<<"[AUDIT] tool=", tool, " BLOCKED (read-only mode) ">>
                 \o SanitizedParams(args, keys))
    ELSE AuditEv(<<"[AUDIT] tool=", tool, " ">> \o SanitizedParams(args, keys))

\* mutant: the workflow tool left out of the guarded set
WRITE_TOOLS_WithoutWorkflow == {"bubble_create", "bubble_update", "bubble_delete"}

WRITE_TOOLS == {"bubble_create", "bubble_update", "bubble_delete", "bubble_workflow"}

NewError(message) ==
    [instanceOfError |-> TRUE, nullish |-> FALSE, hasMessage |-> TRUE,
     message |-> message, upstream |-> Undefined]

\* reading a property of null or undefined
TypeErrorReading(prop) ==
    NewError(<<"Cannot read properties of null (reading '", prop, "')">>)

ArgumentsUndefinedError == NewError(<<"Arguments are undefined">>)

\* mutant: the message does not name the tool
UnknownToolError_Unnamed(name) == NewError(<<"Unknown tool">>)

UnknownToolError(name) == NewError(<<"Unknown tool: ", name>>)

TextBlock(text) == [type |-> "text", text |-> text]

ReadOnlyEnvelope(name) ==
    [content |-> <<TextBlock(<<"Error: ", name,
        " is disabled in read-only mode. Set MCP_MODE=read-write to enable write operations.">>)>>,
     isError |-> TRUE]

\* mutant: the result is rendered without indentation
SuccessEnvelope_Compact(result) ==
    [content |-> <<TextBlock(<<JSONCompact(result)>>)>>]

SuccessEnvelope(result) ==
    [content |-> <<TextBlock(<<JSONPretty(result)>>)>>]

\* mutant: a thrown value that is no Error is reported without the error flag
CatchEnvelope_Unflagged(error) ==
    IF error.instanceOfError
    THEN [content |-> <<TextBlock(<<"Error: ">> \o error.message)>>, isError |-> TRUE]
    ELSE [content |-> <<TextBlock(<<"Unknown error occurred">>)>>]

\* the handler's catch block
CatchEnvelope(error) ==
    IF error.instanceOfError
    THEN [content |-> <<TextBlock(<<"Error: ">> \o error.message)>>, isError |-> TRUE]
    ELSE [content |-> <<TextBlock(<<"Unknown error occurred">>)>>, isError |-> TRUE]

IsError(envelope) == "isError" \in DOMAIN envelope /\ envelope.isError = TRUE

Text(envelope) == envelope.content[1].text

----------------------------------------------------------------------------
(* bubbleService.ts: what each proxy method does before its await *)

RECURSIVE URLSearchParamsToString(_)
\* URLSearchParams.prototype.toString over the appended <<name, value>> pairs
URLSearchParamsToString(pairs) ==
    IF Len(pairs) = 0 THEN <<>>
    ELSE IF Len(pairs) = 1 THEN <<pairs[1][1], "=", pairs[1][2]>>
    ELSE <<pairs[1][1], "=", pairs[1][2], "&">> \o URLSearchParamsToString(Tail(pairs))

\* if (params?.p) queryParams.append(p, params.p.toString())
AppendIfTruthy(params, p) ==
    IF Has(params, p) /\ params[p] # 0
    THEN <<  <<p, NumToString(params[p])>>  >>
    ELSE <<>>

listRequest(dataType, params) ==
    LET queryParams == AppendIfTruthy(params, "limit") \o AppendIfTruthy(params, "cursor")
    IN  HttpEv("GET",
               <<"/api/1.1/obj/", Str(dataType), "?">> \o URLSearchParamsToString(queryParams),
               NoBody)

getSchemaRequest == HttpEv("GET", <<"/api/1.1/meta">>, NoBody)

getRequest(dataType, id) ==
    HttpEv("GET", <<"/obj/", Str(dataType), "/", Str(id)>>, NoBody)

createRequest(dataType, data) ==
    HttpEv("POST", <<"/obj/", Str(dataType)>>, data)

updateRequest(dataType, id, data) ==
    HttpEv("PATCH", <<"/obj/", Str(dataType), "/", Str(id)>>, data)

\* mutant: the delete method reads the item instead of deleting it
deleteRequest_AsGet(dataType, id) ==
    HttpEv("GET", <<"/obj/", Str(dataType), "/", Str(id)>>, NoBody)

deleteRequest(dataType, id) ==
    HttpEv("DELETE", <<"/obj/", Str(dataType), "/", Str(id)>>, NoBody)

executeWorkflowRequest(workflowName, data) ==
    HttpEv("POST", <<"/wf/", Str(workflowName)>>, data)

----------------------------------------------------------------------------
(* bubbleService.ts: the catch block of each proxy method.  Each gives the *)
(* error the method throws and the lines it logs first.                    *)

Thrown(error, logged) == [error |-> error, logged |-> logged]

\* error.response?.data?.message || error.message, as interpolated
ErrorMsg(error) ==
    IF ~Falsy(error.upstream) THEN <<error.upstream>>
    ELSE IF error.hasMessage THEN error.message
    ELSE <<"undefined">>

getSchemaCatch(error) ==
    IF error.nullish THEN Thrown(TypeErrorReading("response"), <<>>)
    ELSE Thrown(error, <<ErrLogEv(<<"Schema fetch error:">> \o ErrorMsg(error))>>)

listCatch(dataType, error) ==
    IF error.nullish THEN Thrown(TypeErrorReading("response"), <<>>)
    ELSE Thrown(NewError(<<"Failed to list ", Str(dataType), ": ">> \o ErrorMsg(error)),
                <<ErrLogEv(<<"Error listing ", Str(dataType), ":">> \o ErrorMsg(error))>>)

\* mutant: the failed request is issued once more before the error is thrown
getCatch_Retries(dataType, id, error) ==
    Thrown(error, <<ErrLogEv(<<"Error getting ", Str(dataType), " ", Str(id), ":">>),
                    getRequest(dataType, id)>>)

getCatch(dataType, id, error) ==
    Thrown(error, <<ErrLogEv(<<"Error getting ", Str(dataType), " ", Str(id), ":">>)>>)

createCatch(dataType, error) ==
    Thrown(error, <<ErrLogEv(<<"Error creating ", Str(dataType), ":">>)>>)

updateCatch(dataType, id, error) ==
    Thrown(error, <<ErrLogEv(<<"Error updating ", Str(dataType), " ", Str(id), ":">>)>>)

deleteCatch(dataType, id, error) ==
    Thrown(error, <<ErrLogEv(<<"Error deleting ", Str(dataType), " ", Str(id), ":">>)>>)

executeWorkflowCatch(workflowName, error) ==
    Thrown(error, <<ErrLogEv(<<"Error executing workflow ", Str(workflowName), ":">>)>>)

\* mutant: a failed fetch clears the slot
SchemaAfterReject_Cleared(sch) == Null

\* the cache slot after a fetch that failed: the catch block does not assign it
SchemaAfterReject(sch) == sch

\* the cache slot after a fetch that succeeded: this.schema = response.data
SchemaAfterResolve(sch, body) == body

----------------------------------------------------------------------------
(* mcp-server.js: the CallToolRequestSchema handler up to its await *)

Return(trace, envelope) == [k |-> "return", trace |-> trace, envelope |-> envelope]
Await(trace) == [k |-> "await", trace |-> trace]
Throw(trace, error) == [k |-> "throw", trace |-> trace, error |-> error]

\* mutant: the presence check is skipped
ArgsMissing_Unchecked(hasArgs) == FALSE

\* if (!args) throw new Error('Arguments are undefined')
ArgsMissing(hasArgs) == ~hasArgs

\* args.data || {}
DataOrEmpty(args) == IF Falsy(Field(args, "data")) THEN ObjEmpty ELSE args.data

\* the switch statement
Switch(name, hasArgs, args, sch) ==
    CASE name = "bubble_get_schema" ->
            LET t == <<logAction(name, EmptyArgs, <<>>, FALSE), CallEv("getSchema")>>
            IN  IF Falsy(sch) THEN Await(t \o <<getSchemaRequest>>)
                ELSE Return(t, SuccessEnvelope(sch))
      [] name = "bubble_list" ->
            IF ArgsMissing(hasArgs) THEN Throw(<<>>, ArgumentsUndefinedError)
            ELSE Await(<<logAction(name, args, <<"dataType", "limit", "cursor">>, FALSE),
                         CallEv("list"),
                         listRequest(Field(args, "dataType"),
                                     [p \in DOMAIN args \cap {"limit", "cursor"} |-> args[p]])>>)
      [] name = "bubble_get" ->
            IF ArgsMissing(hasArgs) THEN Throw(<<>>, ArgumentsUndefinedError)
            ELSE Await(<<logAction(name, args, <<"dataType", "id">>, FALSE),
                         CallEv("get"),
                         getRequest(Field(args, "dataType"), Field(args, "id"))>>)
      [] name = "bubble_create" ->
            IF ArgsMissing(hasArgs) THEN Throw(<<>>, ArgumentsUndefinedError)
            ELSE Await(<<logAction(name, args, <<"dataType">>, FALSE),
                         CallEv("create"),
                         createRequest(Field(args, "dataType"), Field(args, "data"))>>)
      [] name = "bubble_update" ->
            IF ArgsMissing(hasArgs) THEN Throw(<<>>, ArgumentsUndefinedError)
            ELSE Await(<<logAction(name, args, <<"dataType", "id">>, FALSE),
                         CallEv("update"),
                         updateRequest(Field(args, "dataType"), Field(args, "id"),
                                       Field(args, "data"))>>)
      [] name = "bubble_delete" ->
            IF ArgsMissing(hasArgs) THEN Throw(<<>>, ArgumentsUndefinedError)
            ELSE Await(<<logAction(name, args, <<"dataType", "id">>, FALSE),
                         CallEv("delete"),
                         deleteRequest(Field(args, "dataType"), Field(args, "id"))>>)
      [] name = "bubble_workflow" ->
            IF ArgsMissing(hasArgs) THEN Throw(<<>>, ArgumentsUndefinedError)
            ELSE Await(<<logAction(name, args, <<"workflowName">>, FALSE),
                         CallEv("executeWorkflow"),
                         executeWorkflowRequest(Field(args, "workflowName"),
                                                DataOrEmpty(args))>>)
      [] OTHER -> Throw(<<>>, UnknownToolError(name))

\* WRITE_TOOLS.includes(name) && isReadOnlyMode()
ReadOnlyGuard(name, envValue) == name \in WRITE_TOOLS /\ isReadOnlyMode(envValue)

\* mutant: the guard is applied after the switch has run
CallTool_GuardAfterSwitch(name, hasArgs, args, envValue, sch) ==
    LET r == Switch(name, hasArgs, args, sch)
    IN  IF ReadOnlyGuard(name, envValue)
        THEN Return(r.trace \o <<logAction(name, args, FieldOrder, TRUE)>>,
                    ReadOnlyEnvelope(name))
        ELSE IF r.k = "throw" THEN Return(r.trace, CatchEnvelope(r.error)) ELSE r

\* the try block up to the await, and the catch block for what it throws
CallTool(name, hasArgs, args, envValue, sch) ==
    LET r == IF ReadOnlyGuard(name, envValue)
             THEN Return(<<logAction(name, args, FieldOrder, TRUE)>>, ReadOnlyEnvelope(name))
             ELSE Switch(name, hasArgs, args, sch)
    IN  IF r.k = "throw" THEN Return(r.trace, CatchEnvelope(r.error)) ELSE r

\* the proxy method's catch block for the tool that is awaiting
ProxyCatch(name, args, error) ==
    CASE name = "bubble_get_schema" -> getSchemaCatch(error)
      [] name = "bubble_list" -> listCatch(Field(args, "dataType"), error)
      [] name = "bubble_get" -> getCatch(Field(args, "dataType"), Field(args, "id"), error)
      [] name = "bubble_create" -> createCatch(Field(args, "dataType"), error)
      [] name = "bubble_update" -> updateCatch(Field(args, "dataType"), Field(args, "id"), error)
      [] name = "bubble_delete" -> deleteCatch(Field(args, "dataType"), Field(args, "id"), error)
      [] OTHER -> executeWorkflowCatch(Field(args, "workflowName"), error)

----------------------------------------------------------------------------
(* mcp-server.js: the ListToolsRequestSchema handler *)

Descriptor(name, properties, required) ==
    [name |-> name, properties |-> properties, required |-> required]

\* mutant: in read-only mode the catalog leaves out the tools the guard blocks
ToolDescriptors_HidesBlocked ==
    LET all == <<Descriptor("bubble_get_schema", <<>>, <<>>),
                 Descriptor("bubble_list", <<"dataType", "limit", "cursor">>, <<"dataType">>),
                 Descriptor("bubble_get", <<"dataType", "id">>, <<"dataType", "id">>),
                 Descriptor("bubble_create", <<"dataType", "data">>, <<"dataType", "data">>),
                 Descriptor("bubble_update", <<"dataType", "id", "data">>,
                            <<"dataType", "id", "data">>),
                 Descriptor("bubble_delete", <<"dataType", "id">>, <<"dataType", "id">>),
                 Descriptor("bubble_workflow", <<"workflowName", "data">>, <<"workflowName">>)>>
    IN  IF isReadOnlyMode(env) THEN SubSeq(all, 1, 3) ELSE all

\* the `tools` array the handler returns
ToolDescriptors ==
    <<Descriptor("bubble_get_schema", <<>>, <<>>),
      Descriptor("bubble_list", <<"dataType", "limit", "cursor">>, <<"dataType">>),
      Descriptor("bubble_get", <<"dataType", "id">>, <<"dataType", "id">>),
      Descriptor("bubble_create", <<"dataType", "data">>, <<"dataType", "data">>),
      Descriptor("bubble_update", <<"dataType", "id", "data">>, <<"dataType", "id", "data">>),
      Descriptor("bubble_delete", <<"dataType", "id">>, <<"dataType", "id">>),
      Descriptor("bubble_workflow", <<"workflowName", "data">>, <<"workflowName">>)>>

NotListed == [tools |-> <<>>]

----------------------------------------------------------------------------
(* State machine *)

NoCall ==
    [valid |-> FALSE, name |-> "", hasArgs |-> FALSE, args |-> EmptyArgs,
     seen |-> Null, late |-> FALSE, trace |-> <<>>,
     settled |-> [kind |-> "none"], envelope |-> [content |-> <<>>]]

Returned(c, trace, settled, envelope) ==
    [valid |-> TRUE, name |-> c.name, hasArgs |-> c.hasArgs, args |-> c.args,
     seen |-> c.seen, late |-> c.late, trace |-> trace,
     settled |-> settled, envelope |-> envelope]

Init ==
    /\ env \in EnvValues
    /\ schema = Null
    /\ inflight = EmptyBag
    /\ returned = NoCall
    /\ firstOk = [has |-> FALSE, body |-> Null]
    /\ listed = NotListed

\* the environment sets or clears MCP_MODE
SetEnv(v) ==
    /\ v # env
    /\ env' = v
    /\ returned' = NoCall
    /\ listed' = NotListed
    /\ UNCHANGED <<schema, inflight, firstOk>>

\* a tools/list request arrives: the handler returns the catalog
ListTools ==
    /\ listed' = [tools |-> ToolDescriptors]
    /\ returned' = NoCall
    /\ UNCHANGED <<env, schema, inflight, firstOk>>

\* a tools/call request arrives while fewer than `limit` activations are
\* suspended: the handler runs up to its await, or returns
Invoke(limit, name, hasArgs, args) ==
    /\ BagCardinality(inflight) < limit
    /\ LET r == CallTool(name, hasArgs, args, env, schema)
           isSchema == name = "bubble_get_schema"
           c == [name |-> name, hasArgs |-> hasArgs, args |-> args,
                 \* this.schema as getSchema() read it, if it was called
                 seen |-> IF isSchema THEN schema ELSE Null,
                 \* whether a schema fetch had succeeded when getSchema() was called
                 late |-> isSchema /\ firstOk.has,
                 trace |-> r.trace]
       IN  IF r.k = "await"
           THEN /\ inflight' = inflight (+) SetToBag({c})
                /\ returned' = NoCall
           ELSE /\ returned' = Returned(c, r.trace, [kind |-> "none"], r.envelope)
                /\ UNCHANGED inflight
    /\ listed' = NotListed
    /\ UNCHANGED <<env, schema, firstOk>>

\* the transport request of a suspended activation succeeds with
\* response.data = body: the proxy method and the handler run to the end
Resolve(body) ==
    \E c \in BagToSet(inflight) :
        /\ LET isSchema == c.name = "bubble_get_schema"
               sch == IF isSchema THEN SchemaAfterResolve(schema, body) ELSE schema
               result == IF isSchema THEN sch ELSE body
           IN  /\ schema' = sch
               /\ firstOk' = IF isSchema /\ ~firstOk.has
                             THEN [has |-> TRUE, body |-> body] ELSE firstOk
               /\ returned' = Returned(c, c.trace, [kind |-> "resolved", body |-> body],
                                       SuccessEnvelope(result))
        /\ inflight' = inflight (-) SetToBag({c})
        /\ listed' = NotListed
        /\ UNCHANGED env

\* the transport request of a suspended activation fails with `error`: the
\* proxy method's catch block and the handler's catch block run
Reject(error) ==
    \E c \in BagToSet(inflight) :
        /\ LET t == ProxyCatch(c.name, c.args, error)
           IN  /\ schema' = IF c.name = "bubble_get_schema"
                            THEN SchemaAfterReject(schema) ELSE schema
               /\ returned' = Returned(c, c.trace \o t.logged,
                                       [kind |-> "rejected", error |-> error],
                                       CatchEnvelope(t.error))
        /\ inflight' = inflight (-) SetToBag({c})
        /\ listed' = NotListed
        /\ UNCHANGED <<env, firstOk>>

\* the tools/call requests of the model
Requests ==
    {<<n, FALSE, EmptyArgs>> : n \in ToolNames}
        \cup UNION {{<<n, TRUE, a>> : a \in ArgsFor(n)} : n \in ToolNames}

Next ==
    \/ \E v \in EnvValues : SetEnv(v)
    \/ ListTools
    \/ \E q \in Requests : Invoke(MaxInflight, q[1], q[2], q[3])
    \/ \E body \in Bodies : Resolve(body)
    \/ \E error \in Rejections : Reject(error)

Spec == Init /\ [][Next]_vars

\* overlapping schema requests, with one other read tool and one write tool
OverlapRequests ==
    {<<"bubble_get_schema", FALSE, EmptyArgs>>,
     <<"bubble_get", TRUE, [dataType |-> "order", id |-> "42"]>>,
     <<"bubble_delete", TRUE, [dataType |-> "order", id |-> "42"]>>}

NextOverlap ==
    \/ \E v \in EnvValues : SetEnv(v)
    \/ ListTools
    \/ \E q \in OverlapRequests : Invoke(MaxOverlap, q[1], q[2], q[3])
    \/ \E body \in Bodies : Resolve(body)
    \/ \E error \in Rejections : Reject(error)

SpecOverlap == Init /\ [][NextOverlap]_vars

TypeOK ==
    /\ env \in EnvValues
    /\ schema \in Bodies
    /\ IsABag(inflight)
    /\ returned.valid \in BOOLEAN

----------------------------------------------------------------------------
(* Vocabulary of the properties *)

MutatingNames == {"bubble_create", "bubble_update", "bubble_delete", "bubble_workflow"}

SevenNames ==
    {"bubble_get_schema", "bubble_list", "bubble_get", "bubble_create",
     "bubble_update", "bubble_delete", "bubble_workflow"}

\* the events of one kind in what an invocation did
Events(trace, kind) == SelectSeq(trace, LAMBDA e : e.ev = kind)

\* the token s occurs in the text
Contains(text, s) == \E k \in DOMAIN text : text[k] = s

\* the activations this step suspended on the transport
Suspended == {c \in BagToSet(inflight') : CopiesIn(c, inflight') > CopiesIn(c, inflight)}

\* the invocation reached neither a proxy method nor the transport
NoUpstream(trace) ==
    Len(Events(trace, "call")) = 0 /\ Len(Events(trace, "http")) = 0

\* the handler returned without suspending, so env is still what the guard read
ReturnedAtOnce == returned.valid /\ returned.settled.kind = "none"

OneTextBlock(envelope) ==
    /\ Len(envelope.content) = 1
    /\ envelope.content[1].type = "text"

ArgumentsMissingText == <<"Error: ", "Arguments are undefined">>

ReadOnlyText(name) ==
    <<"Error: ", name,
      " is disabled in read-only mode. Set MCP_MODE=read-write to enable write operations.">>

----------------------------------------------------------------------------
\* C1: in read-only mode an invocation of bubble_create, bubble_update,
\* bubble_delete or bubble_workflow, with or without arguments, is never
\* suspended on the transport and returns an envelope with isError = true
\* having called no proxy method and issued no upstream request.
C1_ReadOnlyBlocksWrites ==
    [][ /\ \A c \in Suspended :
              c.name \in MutatingNames => ~isReadOnlyMode(env)
        /\ (returned'.valid /\ returned'.settled.kind = "none"
              /\ returned'.name \in MutatingNames /\ isReadOnlyMode(env))
            => /\ IsError(returned'.envelope)
               /\ NoUpstream(returned'.trace) ]_vars

C1_Witness ==
    /\ ReturnedAtOnce
    /\ returned.name = "bubble_workflow"
    /\ returned.hasArgs
    /\ env = Undefined
    /\ IsError(returned.envelope)
    /\ NoUpstream(returned.trace)

\* C2: the handler never raises: every activation that stops waiting returns
\* an envelope, every returned envelope holds exactly one text block, and it
\* has isError = true whenever the call was mode-blocked, had no arguments
\* (other than bubble_get_schema), named an unknown tool or the proxy raised.
C2_AlwaysAnEnvelope ==
    [][ /\ BagCardinality(inflight') < BagCardinality(inflight) => returned'.valid
        /\ returned'.valid =>
              /\ OneTextBlock(returned'.envelope)
              /\ ( \/ returned'.settled.kind = "rejected"
                   \/ returned'.name \notin SevenNames
                   \/ (~returned'.hasArgs /\ returned'.name # "bubble_get_schema")
                   \/ (returned'.settled.kind = "none"
                         /\ returned'.name \in MutatingNames /\ isReadOnlyMode(env)) )
                 => IsError(returned'.envelope) ]_vars

C2_Witness ==
    /\ returned.valid
    /\ returned.name = "bubble_get"
    /\ returned.settled.kind = "rejected"
    /\ ~returned.settled.error.instanceOfError
    /\ IsError(returned.envelope)
    /\ OneTextBlock(returned.envelope)

\* C3 as stated: for every tool name other than bubble_get_schema, in either
\* mode, an invocation without arguments returns isError = true with the
\* arguments-missing message and makes no upstream call; bubble_get_schema
\* without arguments is not rejected.
C3_Original ==
    /\ (returned.valid /\ ~returned.hasArgs /\ returned.name # "bubble_get_schema")
        => /\ IsError(returned.envelope)
           /\ Text(returned.envelope) = ArgumentsMissingText
           /\ NoUpstream(returned.trace)
    /\ (returned.valid /\ ~returned.hasArgs /\ returned.name = "bubble_get_schema"
          /\ returned.settled.kind # "rejected")
        => ~IsError(returned.envelope)

\* C3 amended: an invocation without arguments of any tool name other than
\* bubble_get_schema returns isError = true and makes no upstream call; its
\* message is the read-only message when the tool is mutating and the mode is
\* read-only, the unknown-tool message when the name is not in the catalog,
\* and the arguments-missing message otherwise.  bubble_get_schema without
\* arguments is not rejected.
C3_ArgumentsMissing ==
    /\ (returned.valid /\ ~returned.hasArgs /\ returned.name # "bubble_get_schema")
        => /\ IsError(returned.envelope)
           /\ NoUpstream(returned.trace)
           /\ returned.settled.kind = "none"
           /\ Text(returned.envelope) =
                IF returned.name \in MutatingNames /\ isReadOnlyMode(env)
                THEN ReadOnlyText(returned.name)
                ELSE IF returned.name \notin SevenNames
                THEN <<"Error: ", "Unknown tool: ", returned.name>>
                ELSE ArgumentsMissingText
    /\ (returned.valid /\ ~returned.hasArgs /\ returned.name = "bubble_get_schema"
          /\ returned.settled.kind # "rejected")
        => ~IsError(returned.envelope)

C3_Witness ==
    /\ ReturnedAtOnce
    /\ ~returned.hasArgs
    /\ returned.name = "bubble_delete"
    /\ env = "read-write"
    /\ Text(returned.envelope) = ArgumentsMissingText

\* C4: for every tool name that is not one of the seven catalog names, in
\* either mode and with or without arguments, the invocation is never
\* suspended on the transport and returns isError = true with a text that
\* contains the tool name, having made no upstream call.
C4_UnknownTool ==
    /\ \A c \in BagToSet(inflight) : c.name \in SevenNames
    /\ (returned.valid /\ returned.name \notin SevenNames)
        => /\ IsError(returned.envelope)
           /\ Contains(Text(returned.envelope), returned.name)
           /\ NoUpstream(returned.trace)

C4_Witness ==
    /\ ReturnedAtOnce
    /\ returned.name = "bubble_frobnicate"
    /\ returned.hasArgs
    /\ ~isReadOnlyMode(env)
    /\ IsError(returned.envelope)
    /\ Contains(Text(returned.envelope), "bubble_frobnicate")

\* C5 as stated: once a schema fetch has succeeded, whatever body it
\* returned, every getSchema call started later issues no upstream request
\* (it is never suspended on the transport) and returns that same value.
C5_Original ==
    /\ \A c \in BagToSet(inflight) : c.name = "bubble_get_schema" => ~c.late
    /\ (returned.valid /\ returned.name = "bubble_get_schema" /\ returned.late)
        => /\ Len(Events(returned.trace, "http")) = 0
           /\ ~IsError(returned.envelope)
           /\ Text(returned.envelope) = <<JSONPretty(firstOk.body)>>

\* C6 as stated: a getSchema call whose transport request fails leaves the
\* cache slot empty, is surfaced as isError = true, and the next getSchema
\* call issues a new transport request.
C6_Original ==
    (returned.valid /\ returned.name = "bubble_get_schema"
       /\ returned.settled.kind = "rejected")
    => /\ schema = Null
       /\ IsError(returned.envelope)
       /\ CallTool("bubble_get_schema", FALSE, EmptyArgs, env, schema).k = "await"

\* C6 amended: a getSchema call whose transport request fails leaves the
\* cache slot as it was (empty unless an overlapping getSchema call's fetch
\* has succeeded meanwhile) and is surfaced as isError = true; while the slot
\* is empty the next getSchema call issues a new transport request.
C6_FailedFetch ==
    [][ (returned'.valid /\ returned'.name = "bubble_get_schema"
           /\ returned'.settled.kind = "rejected")
        => /\ schema' = schema
           /\ ~firstOk.has => schema' = Null
           /\ IsError(returned'.envelope)
           /\ schema' = Null =>
                CallTool("bubble_get_schema", FALSE, EmptyArgs, env', schema').k = "await"
      ]_vars

C6_Witness ==
    /\ returned.valid
    /\ returned.name = "bubble_get_schema"
    /\ returned.settled.kind = "rejected"
    /\ returned.seen = Null
    /\ schema = SchemaA
    /\ IsError(returned.envelope)

\* the query of url carries parameter p with value v
ForwardedAs(url, p, v) ==
    \E k \in 1..(Len(url) - 2) : url[k] = p /\ url[k + 1] = "=" /\ url[k + 2] = v

ListForwarding(c) ==
    (c.name = "bubble_list" /\ c.hasArgs)
    => LET h == Events(c.trace, "http")
       IN  /\ Len(h) = 1
           /\ \A p \in {"limit", "cursor"} :
                 IF Has(c.args, p)
                 THEN ForwardedAs(h[1].url, p, NumToString(c.args[p]))
                 ELSE ~Contains(h[1].url, p)

\* C7 as stated: bubble_list issues a single upstream request whose query
\* carries limit, and likewise cursor, if and only if the argument is
\* present: a present 0 is forwarded, an absent parameter never appears.
C7_Original ==
    /\ \A c \in BagToSet(inflight) : ListForwarding(c)
    /\ returned.valid => ListForwarding(returned)

\* the message the claim expects a failure to carry
UpstreamElseTransportMessage(error) ==
    IF error.upstream # Undefined THEN error.upstream ELSE error.message[1]

\* the identifiers an invocation targets, among those its arguments hold
Targets(name, args) ==
    LET fields == CASE name \in {"bubble_list", "bubble_create"} -> {"dataType"}
                    [] name \in {"bubble_get", "bubble_update", "bubble_delete"} ->
                          {"dataType", "id"}
                    [] name = "bubble_workflow" -> {"workflowName"}
                    [] OTHER -> {}
    IN  {args[f] : f \in fields \cap DOMAIN args}

\* C8 as stated: when the transport request of any proxy method fails with
\* an error that has a message, the returned envelope has isError = true and
\* its text carries the upstream-provided message if there is one, else the
\* transport's own message, and names the data type / id / workflow targeted.
C8_Original ==
    (returned.valid /\ returned.settled.kind = "rejected"
       /\ returned.settled.error.hasMessage)
    => /\ IsError(returned.envelope)
       /\ Contains(Text(returned.envelope),
                   UpstreamElseTransportMessage(returned.settled.error))
       /\ \A t \in Targets(returned.name, returned.args) :
             Contains(Text(returned.envelope), t)

AuditBeforeHttp(trace) ==
    \A a, h \in DOMAIN trace :
        (trace[a].ev = "audit" /\ trace[h].ev = "http") => a < h

\* C9 as stated: every invocation attempt, whatever its outcome, emits
\* exactly one audit line (marked blocked exactly when the guard rejected
\* it), and emits it before any upstream request it makes.
C9_Original ==
    /\ \A c \in BagToSet(inflight) :
          Len(Events(c.trace, "audit")) = 1 /\ AuditBeforeHttp(c.trace)
    /\ returned.valid =>
          /\ Len(Events(returned.trace, "audit")) = 1
          /\ AuditBeforeHttp(returned.trace)
          /\ Contains(Events(returned.trace, "audit")[1].line, " BLOCKED (read-only mode) ")
               <=> Text(returned.envelope) = ReadOnlyText(returned.name)

\* the guard rejected the invocation that returned in this step
GuardRejected == Text(returned'.envelope) = ReadOnlyText(returned'.name)

\* C10 as stated: mutation is enabled only when MCP_MODE is `read-write`;
\* for every other value, absent included, the four mutating tools are
\* rejected; the decision depends only on the value at the time of the check.
C10_Original ==
    [][ /\ \A c \in Suspended : c.name \in MutatingNames => env = "read-write"
        /\ (returned'.valid /\ returned'.settled.kind = "none"
              /\ returned'.name \in MutatingNames)
            => (GuardRejected <=> env # "read-write") ]_vars

\* the settings that read `read-write` when letter case is ignored
ReadWriteSettings == {"read-write", "READ-WRITE"}

\* C10 amended: mutation is enabled only when MCP_MODE, compared without
\* regard to letter case, is `read-write`; for every other value, absent
\* included, the four mutating tools are rejected; the decision depends only
\* on the value at the time of the check.
C10_ModeSetting ==
    [][ /\ \A c \in Suspended : c.name \in MutatingNames => env \in ReadWriteSettings
        /\ (returned'.valid /\ returned'.settled.kind = "none"
              /\ returned'.name \in MutatingNames)
            => (GuardRejected <=> env \notin ReadWriteSettings) ]_vars

C10_Witness ==
    /\ returned.valid
    /\ returned.name = "bubble_create"
    /\ returned.settled.kind = "resolved"
    /\ env = "read-only"

\* the names of the descriptors, in order
ListedNames == [k \in DOMAIN listed'.tools |-> listed'.tools[k].name]

\* C11: a catalog listing returns exactly seven descriptors, named
\* bubble_get_schema, bubble_list, bubble_get, bubble_create, bubble_update,
\* bubble_delete, bubble_workflow in this order, in every mode and after any
\* invocations; the step suspends nothing on the transport, returns no tool
\* envelope and leaves the schema cache (and the mode setting) unchanged.
C11_CatalogListing ==
    [][ listed' # NotListed
        => /\ Len(listed'.tools) = 7
           /\ ListedNames =
                <<"bubble_get_schema", "bubble_list", "bubble_get", "bubble_create",
                  "bubble_update", "bubble_delete", "bubble_workflow">>
           /\ inflight' = inflight
           /\ schema' = schema
           /\ env' = env
           /\ ~returned'.valid ]_vars

C11_Witness ==
    /\ listed # NotListed
    /\ Len(listed.tools) = 7
    /\ isReadOnlyMode(env)
    /\ schema = SchemaA
    /\ BagCardinality(inflight) = 1

\* in what an invocation did, the proxy method call precedes the request
CallBeforeHttp(trace) ==
    \A a, h \in DOMAIN trace :
        (trace[a].ev = "call" /\ trace[h].ev = "http") => a < h

\* C12: the mode check comes before dispatch (a blocked mutating tool gets
\* the read-only answer even without arguments), the argument-presence check
\* comes before the proxy call, and both come before any upstream request:
\* every rejected invocation (mode-blocked, arguments missing, unknown tool)
\* returns at once with isError = true, having called no proxy method and
\* issued no request; an accepted one calls its proxy method before the request.
C12_ChecksBeforeUpstream ==
    /\ \A c \in BagToSet(inflight) :
          /\ CallBeforeHttp(c.trace)
          /\ c.hasArgs \/ c.name = "bubble_get_schema"
    /\ returned.valid => CallBeforeHttp(returned.trace)
    /\ (ReturnedAtOnce /\ returned.name \in MutatingNames /\ isReadOnlyMode(env))
        => /\ Text(returned.envelope) = ReadOnlyText(returned.name)
           /\ IsError(returned.envelope)
           /\ NoUpstream(returned.trace)
    /\ (returned.valid
          /\ \/ returned.name \notin SevenNames
             \/ (~returned.hasArgs /\ returned.name # "bubble_get_schema"))
        => /\ returned.settled.kind = "none"
           /\ IsError(returned.envelope)
           /\ NoUpstream(returned.trace)

C12_Witness ==
    /\ ReturnedAtOnce
    /\ returned.name = "bubble_update"
    /\ ~returned.hasArgs
    /\ isReadOnlyMode(env)
    /\ Text(returned.envelope) = ReadOnlyText("bubble_update")
    /\ NoUpstream(returned.trace)

\* the proxy method of each catalog tool
MethodOf(name) ==
    CASE name = "bubble_get_schema" -> "getSchema"
      [] name = "bubble_list" -> "list"
      [] name = "bubble_get" -> "get"
      [] name = "bubble_create" -> "create"
      [] name = "bubble_update" -> "update"
      [] name = "bubble_delete" -> "delete"
      [] name = "bubble_workflow" -> "executeWorkflow"
      [] OTHER -> "none"

\* exactly the proxy method of the tool was called, once
CalledOwnMethod(name, trace) ==
    /\ Len(Events(trace, "call")) = 1
    /\ Events(trace, "call")[1].method = MethodOf(name)

\* C13: an invocation calls at most one proxy method and issues at most one
\* upstream request: an accepted one calls exactly the proxy method of its
\* tool, which issues exactly one request (none when bubble_get_schema is
\* served from the cache), and a failed request is not issued again.
C13_AtMostOneRequest ==
    /\ \A c \in BagToSet(inflight) :
          /\ CalledOwnMethod(c.name, c.trace)
          /\ Len(Events(c.trace, "http")) = 1
    /\ returned.valid =>
          /\ Len(Events(returned.trace, "call")) <= 1
          /\ Len(Events(returned.trace, "http")) <= 1
          /\ returned.settled.kind \in {"resolved", "rejected"} =>
                /\ CalledOwnMethod(returned.name, returned.trace)
                /\ Len(Events(returned.trace, "http")) = 1
          /\ (ReturnedAtOnce /\ ~IsError(returned.envelope)) =>
                /\ returned.name = "bubble_get_schema"
                /\ ~Falsy(returned.seen)
                /\ CalledOwnMethod(returned.name, returned.trace)
                /\ Len(Events(returned.trace, "http")) = 0

C13_Witness ==
    /\ returned.valid
    /\ returned.name = "bubble_get"
    /\ returned.settled.kind = "rejected"
    /\ Len(Events(returned.trace, "http")) = 1
    /\ Len(Events(returned.trace, "errlog")) = 1

\* url is a collection path keyed by dataType, with or without a query
CollectionPath(url, dataType) ==
    /\ Len(url) >= 2
    /\ url[1] \in {"/obj/", "/api/1.1/obj/"}
    /\ url[2] = Str(dataType)
    /\ Len(url) > 2 => url[3] = "?"

\* url is the item path keyed by dataType and id
ItemPath(url, dataType, id) == url = <<"/obj/", Str(dataType), "/", Str(id)>>

WorkflowPath(url, workflowName) == url = <<"/wf/", Str(workflowName)>>

MetadataPath(url) == url = <<"/api/1.1/meta">>

\* workflow data that is absent (missing or null) stands for the empty object
WorkflowBody(args) ==
    IF Has(args, "data") /\ args.data # Null THEN args.data ELSE ObjEmpty

\* the values of the argument fields that the tool does not document
Undocumented(name, args) ==
    LET documented ==
            CASE name = "bubble_get_schema" -> {}
              [] name = "bubble_list" -> {"dataType", "limit", "cursor"}
              [] name \in {"bubble_get", "bubble_delete"} -> {"dataType", "id"}
              [] name = "bubble_create" -> {"dataType", "data"}
              [] name = "bubble_update" -> {"dataType", "id", "data"}
              [] name = "bubble_workflow" -> {"workflowName", "data"}
              [] OTHER -> {}
    IN  {args[f] : f \in DOMAIN args \ documented}

\* the single request of invocation c has the verb, target and body of its tool
Routed(c) ==
    LET h == Events(c.trace, "http")
        dataType == Field(c.args, "dataType")
        id == Field(c.args, "id")
    IN  /\ Len(h) = 1
        /\ CASE c.name = "bubble_get_schema" ->
                   h[1].verb = "GET" /\ MetadataPath(h[1].url) /\ h[1].body = NoBody
             [] c.name = "bubble_list" ->
                   h[1].verb = "GET" /\ CollectionPath(h[1].url, dataType)
                   /\ h[1].body = NoBody
             [] c.name = "bubble_get" ->
                   h[1].verb = "GET" /\ ItemPath(h[1].url, dataType, id)
                   /\ h[1].body = NoBody
             [] c.name = "bubble_create" ->
                   h[1].verb = "POST" /\ CollectionPath(h[1].url, dataType)
                   /\ Len(h[1].url) = 2 /\ h[1].body = Field(c.args, "data")
             [] c.name = "bubble_update" ->
                   h[1].verb = "PATCH" /\ ItemPath(h[1].url, dataType, id)
                   /\ h[1].body = Field(c.args, "data")
             [] c.name = "bubble_delete" ->
                   h[1].verb = "DELETE" /\ ItemPath(h[1].url, dataType, id)
                   /\ h[1].body = NoBody
             [] c.name = "bubble_workflow" ->
                   h[1].verb = "POST" /\ WorkflowPath(h[1].url, Field(c.args, "workflowName"))
                   /\ h[1].body = WorkflowBody(c.args)
             [] OTHER -> FALSE
        /\ \A v \in Undocumented(c.name, c.args) :
              ~Contains(h[1].url, v) /\ h[1].body # v

\* C14: an accepted invocation reaches the upstream with the verb and target
\* of its own tool and no other: get_schema GET metadata, list GET collection,
\* get GET item, create POST collection with body data, update PATCH item with
\* body data, delete DELETE item, workflow POST workflow with body data (the
\* empty object when data is absent); no other argument field is forwarded.
C14_Routing ==
    /\ \A c \in BagToSet(inflight) : Routed(c)
    /\ (returned.valid /\ returned.settled.kind \in {"resolved", "rejected"})
          => Routed(returned)

C14_Witness ==
    /\ returned.valid
    /\ returned.name = "bubble_workflow"
    /\ returned.settled.kind = "resolved"
    /\ ~Has(returned.args, "data")
    /\ Events(returned.trace, "http")[1].body = ObjEmpty

\* the step completes the later of two overlapping schema fetches: the call
\* read an empty slot before any fetch had succeeded, and another fetch has
\* succeeded while it was suspended
LaterOfOverlappingFetches ==
    /\ returned'.valid
    /\ returned'.name = "bubble_get_schema"
    /\ returned'.settled.kind \in {"resolved", "rejected"}
    /\ returned'.seen = Null
    /\ ~returned'.late
    /\ firstOk.has

\* C15 as stated: two getSchema calls that both start while the slot is
\* empty and before either fetch completes issue one transport request each;
\* once both have completed the slot holds the response of a fetch that
\* succeeded and is empty only if both failed; a failing fetch does not
\* erase the value the other wrote.
C15_Original ==
    [][ LaterOfOverlappingFetches
        => /\ Len(Events(returned'.trace, "http")) = 1
           /\ schema' \in {firstOk.body}
                 \cup (IF returned'.settled.kind = "resolved"
                       THEN {returned'.settled.body} ELSE {})
           /\ schema' # Null
           /\ returned'.settled.kind = "rejected" => schema' = schema
      ]_vars

\* the inputs the catalog marks as required for each tool
RequiredInputs(name) ==
    CASE name \in {"bubble_get", "bubble_delete"} -> {"dataType", "id"}
      [] name = "bubble_list" -> {"dataType"}
      [] name = "bubble_create" -> {"dataType", "data"}
      [] name = "bubble_update" -> {"dataType", "id", "data"}
      [] name = "bubble_workflow" -> {"workflowName"}
      [] OTHER -> {}

\* the arguments object is present but lacks a required input of the tool
LacksRequired(c) == c.hasArgs /\ RequiredInputs(c.name) \ DOMAIN c.args # {}

\* C16 as stated: an invocation whose arguments object is present but lacks
\* a required input of its tool is rejected with isError = true and issues
\* no upstream request.
C16_Original ==
    /\ \A c \in BagToSet(inflight) : ~LacksRequired(c)
    /\ (returned.valid /\ LacksRequired(returned))
          => IsError(returned.envelope) /\ NoUpstream(returned.trace)

\* the envelope is not flagged as an error and its single text block is the
\* pretty-printed JSON of value
RendersValue(envelope, value) ==
    /\ ~IsError(envelope)
    /\ OneTextBlock(envelope)
    /\ Text(envelope) = <<JSONPretty(value)>>

\* C17: when the proxy method returns a value, the envelope does not flag an
\* error (the handler leaves isError out, which stands for false) and its
\* single text block is the pretty-printed JSON of exactly that value: the
\* response body, or for bubble_get_schema the value of the cache slot.
C17_SuccessEnvelope ==
    /\ (returned.valid /\ returned.settled.kind = "resolved")
          => RendersValue(returned.envelope, returned.settled.body)
    /\ (ReturnedAtOnce /\ returned.name = "bubble_get_schema")
          => RendersValue(returned.envelope, returned.seen)

C17_Witness ==
    /\ returned.valid
    /\ returned.name = "bubble_list"
    /\ returned.settled.kind = "resolved"
    /\ returned.settled.body = SchemaB
    /\ Text(returned.envelope) = <<JSONPretty(SchemaB)>>

\* the step is a getSchema call whose transport request succeeded
SuccessfulSchemaFetch ==
    /\ returned'.valid
    /\ returned'.name = "bubble_get_schema"
    /\ returned'.settled.kind = "resolved"

\* C18 as stated: under any interleaving of invocations, once the cache slot
\* holds a value it never becomes empty again, and no step other than a
\* successful getSchema fetch writes to it.
C18_Original ==
    [][ /\ schema # Null => schema' # Null
        /\ schema' # schema => SuccessfulSchemaFetch
      ]_vars

====
